---- MODULE Spec2Model ----
(***************************************************************************)
(* A model of mint_token.py: the __main__ block and mint_tokens().  One    *)
(* process runs the script once.  Text that the script interpolates        *)
(* (the address, the amount, response bodies, printed payloads) is a       *)
(* sequence of one-character strings, so that formatting, parsing and      *)
(* rendering are computed character by character as Python does.  The      *)
(* endpoint is the environment: to every request it answers with an HTTP   *)
(* response, with a transport fault, or not at all.                        *)
(***************************************************************************)
EXTENDS Integers, Sequences, FiniteSets, TLC

VARIABLES
    sys_argv,    \* sys.argv: the script name, then the positional arguments
    pc,          \* the statement the interpreter is at
    to_address,  \* mint_tokens' first parameter
    amount,      \* mint_tokens' second parameter
    requests,    \* every requests.post call made so far, in order
    inflight,    \* indices (into requests) of calls that have not returned
    response,    \* the local variable `response`
    out,         \* the lines printed to standard output, in order
    fault        \* the unhandled exception that ended the process, if any

vars == <<sys_argv, pc, to_address, amount, requests, inflight, response, out, fault>>

-----------------------------------------------------------------------------
(* Bounds of the model.                                                    *)

\* Longest destination address given on the command line.
MaxAddrLen == 2
\* Longest amount given on the command line.
MaxAmountLen == 1

\* Characters the command-line address is drawn from: a hex digit and the
\* double quote (the character the query template wraps the address in).
AddrChars == {"1", "\""}
\* Characters the command-line amount is drawn from.
AmountChars == {"1"}

RECURSIVE StringsUpTo(_, _)
StringsUpTo(chars, n) ==
    IF n = 0 THEN {<<>>}
    ELSE LET shorter == StringsUpTo(chars, n - 1)
         IN  shorter \cup {Append(s, c) : s \in shorter, c \in chars}

Addresses == StringsUpTo(AddrChars, MaxAddrLen)
Amounts == StringsUpTo(AmountChars, MaxAmountLen)

-----------------------------------------------------------------------------
(* Configuration (module level of mint_token.py).                          *)

LINERA_SERVICE == "http://localhost:8082"
CHAIN_ID == "3482d6e583c1ea93461a9df51dda460cb1d855fb30d8c9c5719145b07692147b"
APP_ID == "fee1da3380b869246b647b9deedaed0403043c4474b1b347cf2f8297da674126"

ScriptName == <<"m", "i", "n", "t", "_", "t", "o", "k", "e", "n", ".", "p", "y">>
DefaultAddress == <<"f", "1", "0", "0", "8", "4", "8", "5", "b", "2", "7", "7", "a", "d", "d", "6", "c", "3", "b", "5", "4", "2", "0", "7", "0", "1", "4", "d", "f", "4", "5", "f", "d", "8", "f", "b", "4", "8", "e", "8", "1", "4", "6", "6", "8", "9", "b", "a", "5", "5", "4", "1", "2", "8", "a", "3", "2", "a", "6", "f", "1", "c", "e", "8">>
DefaultAmount == <<"1", "0", "0", "0", ".">>

\* The status code both `if response.status_code == 200` tests compare with.
HTTP_OK == 200
\* json.dumps(result, indent=2)
JSON_INDENT == 2
\* print("=" * 50)
BANNER_WIDTH == 50

-----------------------------------------------------------------------------
(* Text helpers.                                                           *)

Range(s) == {s[i] : i \in 1..Len(s)}

Digits == <<"0", "1", "2", "3", "4", "5", "6", "7", "8", "9">>

IsDigit(c) == c \in Range(Digits)

DigitValue(c) == CHOOSE d \in 0..9 : Digits[d + 1] = c

\* str(n) of a non-negative int.
RECURSIVE ToDecimal(_)
ToDecimal(n) ==
    IF n < 10 THEN <<Digits[n + 1]>>
    ELSE Append(ToDecimal(n \div 10), Digits[(n % 10) + 1])

\* s * n for a one-character string s.
RECURSIVE Repeat(_, _)
Repeat(c, n) == IF n = 0 THEN <<>> ELSE <<c>> \o Repeat(c, n - 1)

\* Index of the first c in s at or after i; 0 when there is none.
RECURSIVE IndexFrom(_, _, _)
IndexFrom(s, c, i) ==
    IF i > Len(s) THEN 0
    ELSE IF s[i] = c THEN i
    ELSE IndexFrom(s, c, i + 1)

-----------------------------------------------------------------------------
(* f-strings.  A template is the text between the quotes of an f-string;   *)
(* "{{" and "}}" stand for a brace, "{name}" for the value of the local    *)
(* variable of that name, inserted as it is.                               *)

ToAddressName == <<"t", "o", "_", "a", "d", "d", "r", "e", "s", "s">>
AmountName == <<"a", "m", "o", "u", "n", "t">>

\* The local variables of mint_tokens an f-string can name.
Locals(addr, amt) == (ToAddressName :> addr) @@ (AmountName :> amt)

RECURSIVE FString(_, _, _)
FString(t, i, env) ==
    IF i > Len(t) THEN <<>>
    ELSE IF t[i] = "{" /\ i < Len(t) /\ t[i + 1] = "{"
         THEN <<"{">> \o FString(t, i + 2, env)
    ELSE IF t[i] = "}" /\ i < Len(t) /\ t[i + 1] = "}"
         THEN <<"}">> \o FString(t, i + 2, env)
    ELSE IF t[i] = "{"
         THEN LET j == IndexFrom(t, "}", i + 1)
              IN  env[SubSeq(t, i + 1, j - 1)] \o FString(t, j + 1, env)
    ELSE <<t[i]>> \o FString(t, i + 1, env)

-----------------------------------------------------------------------------
(* response.json(): the JSON decoder, on the part of JSON the modelled     *)
(* endpoint answers with: objects, strings without escapes, non-negative   *)
(* integers, and blanks between tokens.  A value is <<"str", chars>>,      *)
(* <<"num", n>> or <<"obj", members>>, members a sequence of <<key, value>>*)
(* in insertion order (a Python dict).  A parse result is                  *)
(* [ok, val, next]: next is the index after the value.                     *)

Quote == "\""
Apostrophe == "'"
Backslash == "\\"
Newline == "\n"

IsBlank(c) == c \in {" ", Newline}

NoParse == [ok |-> FALSE, val |-> <<>>, next |-> 0]

RECURSIVE SkipBlanks(_, _)
SkipBlanks(s, i) ==
    IF i <= Len(s) /\ IsBlank(s[i]) THEN SkipBlanks(s, i + 1) ELSE i

\* A string literal opening at s[i] with the quote character s[i]: it runs
\* to the next such quote, and may hold no backslash and no line break.
ParseString(s, i) ==
    LET j == IndexFrom(s, s[i], i + 1)
        body == SubSeq(s, i + 1, j - 1)
    IN  IF j = 0 \/ Backslash \in Range(body) \/ Newline \in Range(body)
        THEN NoParse
        ELSE [ok |-> TRUE, val |-> <<"str", body>>, next |-> j + 1]

\* Index after the run of digits that starts at s[i].
RECURSIVE DigitsEnd(_, _)
DigitsEnd(s, i) ==
    IF i <= Len(s) /\ IsDigit(s[i]) THEN DigitsEnd(s, i + 1) ELSE i

RECURSIVE FromDecimal(_)
FromDecimal(ds) ==
    IF ds = <<>> THEN 0
    ELSE 10 * FromDecimal(SubSeq(ds, 1, Len(ds) - 1)) + DigitValue(ds[Len(ds)])

\* An integer literal at s[i]: "0", or a digit 1-9 and then digits.
ParseNumber(s, i) ==
    LET j == IF s[i] = "0" THEN i + 1 ELSE DigitsEnd(s, i)
    IN  [ok |-> TRUE, val |-> <<"num", FromDecimal(SubSeq(s, i, j - 1))>>,
         next |-> j]

\* dict[key] = value: a key already present keeps its place.
DictSet(members, key, value) ==
    IF \E k \in 1..Len(members) : members[k][1] = key
    THEN [k \in 1..Len(members) |->
             IF members[k][1] = key THEN <<key, value>> ELSE members[k]]
    ELSE Append(members, <<key, value>>)

\* quotes: the characters that open a string literal ({Quote} in JSON).
RECURSIVE ParseValue(_, _, _), ParseMembers(_, _, _, _)
ParseValue(s, i, quotes) ==
    IF i > Len(s) THEN NoParse
    ELSE IF s[i] \in quotes THEN ParseString(s, i)
    ELSE IF IsDigit(s[i]) THEN ParseNumber(s, i)
    ELSE IF s[i] = "{"
         THEN LET j == SkipBlanks(s, i + 1)
              IN  IF j <= Len(s) /\ s[j] = "}"
                  THEN [ok |-> TRUE, val |-> <<"obj", <<>>>>, next |-> j + 1]
                  ELSE ParseMembers(s, j, quotes, <<>>)
    ELSE NoParse

\* The members of an object from s[i] on (after "{" or ","), up to its "}".
ParseMembers(s, i, quotes, members) ==
    IF i > Len(s) \/ s[i] \notin quotes THEN NoParse
    ELSE LET key == ParseString(s, i)
             colon == IF key.ok THEN SkipBlanks(s, key.next) ELSE 0
         IN  IF ~key.ok \/ colon > Len(s) \/ s[colon] # ":" THEN NoParse
             ELSE LET value == ParseValue(s, SkipBlanks(s, colon + 1), quotes)
                      sep == IF value.ok THEN SkipBlanks(s, value.next) ELSE 0
                      sofar == DictSet(members, key.val[2], value.val)
                  IN  IF ~value.ok \/ sep > Len(s) THEN NoParse
                      ELSE IF s[sep] = "}"
                           THEN [ok |-> TRUE, val |-> <<"obj", sofar>>,
                                 next |-> sep + 1]
                      ELSE IF s[sep] = ","
                           THEN ParseMembers(s, SkipBlanks(s, sep + 1),
                                             quotes, sofar)
                      ELSE NoParse

\* A whole document: one value with nothing but blanks around it.
ParseDocument(s, quotes) ==
    LET r == ParseValue(s, SkipBlanks(s, 1), quotes)
    IN  IF r.ok /\ SkipBlanks(s, r.next) > Len(s) THEN r ELSE NoParse

\* response.json(): raises JSONDecodeError when ~ok.
ParseJSON(text) == ParseDocument(text, {Quote})

-----------------------------------------------------------------------------
(* Rendering a parsed value: str()/repr() as an f-string does with         *)
(* {result}, and json.dumps(result, indent=2).                             *)

\* s with every backslash and every q preceded by a backslash.
RECURSIVE EscapeChars(_, _)
EscapeChars(s, q) ==
    IF s = <<>> THEN <<>>
    ELSE (IF Head(s) \in {Backslash, q} THEN <<Backslash, Head(s)>>
          ELSE <<Head(s)>>) \o EscapeChars(Tail(s), q)

\* repr of a str: in apostrophes, unless it holds an apostrophe and no
\* double quote.
ReprStr(s) ==
    LET q == IF Apostrophe \in Range(s) /\ Quote \notin Range(s)
             THEN Quote ELSE Apostrophe
    IN  <<q>> \o EscapeChars(s, q) \o <<q>>

\* repr of a parsed value; a dict is {k: v, k: v}.
RECURSIVE Repr(_), ReprMembers(_, _)
Repr(v) ==
    IF v[1] = "str" THEN ReprStr(v[2])
    ELSE IF v[1] = "num" THEN ToDecimal(v[2])
    ELSE <<"{">> \o ReprMembers(v[2], 1) \o <<"}">>

ReprMembers(members, k) ==
    IF k > Len(members) THEN <<>>
    ELSE (IF k > 1 THEN <<",", " ">> ELSE <<>>)
         \o ReprStr(members[k][1]) \o <<":", " ">> \o Repr(members[k][2])
         \o ReprMembers(members, k + 1)

\* json.dumps(v, indent=JSON_INDENT), v nested `level` objects deep.
RECURSIVE Dumps(_, _), DumpsMembers(_, _, _)
Dumps(v, level) ==
    IF v[1] = "str" THEN <<Quote>> \o EscapeChars(v[2], Quote) \o <<Quote>>
    ELSE IF v[1] = "num" THEN ToDecimal(v[2])
    ELSE IF v[2] = <<>> THEN <<"{", "}">>
    ELSE <<"{">> \o DumpsMembers(v[2], 1, level + 1)
         \o <<Newline>> \o Repeat(" ", JSON_INDENT * level) \o <<"}">>

DumpsMembers(members, k, level) ==
    IF k > Len(members) THEN <<>>
    ELSE (IF k > 1 THEN <<",">> ELSE <<>>)
         \o <<Newline>> \o Repeat(" ", JSON_INDENT * level)
         \o <<Quote>> \o EscapeChars(members[k][1], Quote) \o <<Quote>>
         \o <<":", " ">> \o Dumps(members[k][2], level)
         \o DumpsMembers(members, k + 1, level)


-----------------------------------------------------------------------------
(* The requests.                                                           *)

\* url = f"{LINERA_SERVICE}/chains/{CHAIN_ID}/applications/{APP_ID}"
Url == LINERA_SERVICE \o "/chains/" \o CHAIN_ID \o "/applications/" \o APP_ID

\* A balance query that also names the amount.
BalanceTemplateWithAmount ==
    <<"{", "{", " ", "b", "a", "l", "a", "n", "c", "e", "(", "o", "w", "n", "e", "r", ":", " ", "\"", "{", "t", "o", "_", "a", "d", "d", "r", "e", "s", "s", "}", "\"", ",", " ", "a", "m", "o", "u", "n", "t", ":", " ", "\"", "{", "a", "m", "o", "u", "n", "t", "}", "\"", ")", " ", "}", "}">>

\* The f-string of balance_query: f'{{ balance(owner: "{to_address}") }}'
BalanceTemplate == <<"{", "{", " ", "b", "a", "l", "a", "n", "c", "e", "(", "o", "w", "n", "e", "r", ":", " ", "\"", "{", "t", "o", "_", "a", "d", "d", "r", "e", "s", "s", "}", "\"", ")", " ", "}", "}">>

\* A balance query that escapes the quotes of the address.
BalanceQueryEscaped(addr, amt) ==
    [query |-> FString(BalanceTemplate, 1,
                       Locals(EscapeChars(addr, "\""), amt))]

\* balance_query
BalanceQuery(addr, amt) ==
    [query |-> FString(BalanceTemplate, 1, Locals(addr, amt))]

\* info_query (a plain string, not an f-string)
InfoQuery(addr, amt) ==
    [query |-> <<"{", " ", "t", "o", "k", "e", "n", "I", "n", "f", "o", " ", "{", " ", "n", "a", "m", "e", " ", "s", "y", "m", "b", "o", "l", " ", "d", "e", "c", "i", "m", "a", "l", "s", " ", "t", "o", "t", "a", "l", "S", "u", "p", "p", "l", "y", " ", "}", " ", "}">>]

\* One requests.post(url, json=...) call.
Post(url, body) == [url |-> url, json |-> body]

-----------------------------------------------------------------------------
(* The environment: what the endpoint can answer.                          *)

\* Status codes of the answers.
StatusCodes == {HTTP_OK, 404, 500}

\* Bodies of the answers: JSON documents, and texts that are not JSON.
Bodies ==
    { <<"{", "\"", "d", "a", "t", "a", "\"", ":", "{", "\"", "b", "a", "l", "a", "n", "c", "e", "\"", ":", "\"", "4", "2", ".", "\"", "}", "}">>,
      <<"{", "\"", "a", "\"", ":", " ", "1", ",", " ", "\"", "b", "\"", ":", " ", "\"", "x", "\"", "}">>,
      <<"\"", "i", "t", "'", "s", "\"">>,
      <<"7">>,
      <<"{", "}">>,
      <<"s", "e", "r", "v", "e", "r", " ", "e", "r", "r", "o", "r">>,
      <<"{", "\"", "a", "\"", ":", "1">>,
      <<>> }

\* A requests.Response, as far as the script reads it.
Responses == [status_code : StatusCodes, text : Bodies]

\* The value of `response` before the first assignment to it.
NoResponse == [status_code |-> 0, text |-> <<>>]

-----------------------------------------------------------------------------
(* Standard output.  A printed line is the literal text of its f-string,   *)
(* with {} where a value is interpolated, and the text interpolated there. *)
(* (The emoji that open some of the script's messages are left out.)       *)

Line(lit, arg) == [lit |-> lit, arg |-> arg]

\* Lines 66-73: the banner of the __main__ block.
Banner(addr, amt) ==
    << Line("ALETHEA Token Mint Script", <<>>),
       Line("{}", Repeat("=", BANNER_WIDTH)),
       Line("To Address: {}", addr),
       Line("Amount: {}", amt),
       Line("Chain ID: " \o CHAIN_ID, <<>>),
       Line("App ID: " \o APP_ID, <<>>),
       Line("{}", Repeat("=", BANNER_WIDTH)),
       Line("", <<>>) >>

\* str(v), which is what {result} in an f-string inserts: a str as it is,
\* anything else as its repr.
Str(v) == IF v[1] = "str" THEN v[2] ELSE Repr(v)

\* Line 36: print(f"Current balance: {result}")
BalanceOkLines(result) ==
    << Line("Current balance: {}", Str(result)) >>

\* Lines 38-39: the status code, then the raw text.
BalanceFailedLines(resp) ==
    << Line("Could not check balance: {}", ToDecimal(resp.status_code)),
       Line("Response: {}", resp.text) >>

\* A token-info report that inserts the parsed value as line 36 does.
InfoOkLinesAsStr(result) ==
    << Line("Token info: {}", Str(result)) >>

\* Line 51: print(f"Token info: {json.dumps(result, indent=2)}")
InfoOkLines(result) ==
    << Line("Token info: {}", Dumps(result, 0)) >>

\* Line 53: the status code only.
InfoFailedLines(resp) ==
    << Line("Could not get token info: {}", ToDecimal(resp.status_code)) >>

\* Lines 55-60: the advisory.
Advisory ==
    << Line("\nNote: Direct minting via GraphQL is not supported.", <<>>),
       Line("The ALETHEA contract requires operation execution through Linera blocks.", <<>>),
       Line("\nTo mint tokens, you need to:", <<>>),
       Line("1. Use the Linera CLI to create a block with Mint operation", <<>>),
       Line("2. Or use the dashboard UI which handles operation execution", <<>>),
       Line("3. Or implement a proper RPC client that can sign and submit blocks", <<>>) >>

-----------------------------------------------------------------------------
(* The process.                                                            *)

\* The command lines: no argument, an address, or an address and an amount.
CommandLines ==
    {<<ScriptName>>}
    \cup {<<ScriptName, a>> : a \in Addresses}
    \cup {<<ScriptName, a, m>> : a \in Addresses, m \in Amounts}

Init ==
    /\ sys_argv \in CommandLines
    /\ pc = "main"
    /\ to_address = <<>>
    /\ amount = <<>>
    /\ requests = <<>>
    /\ inflight = {}
    /\ response = NoResponse
    /\ out = <<>>
    /\ fault = "none"

\* Lines 63-64 (sys.argv[n] is sys_argv[n + 1] here).
ArgAddress(argv) == IF Len(argv) > 1 THEN argv[2] ELSE DefaultAddress
ArgAmount(argv) == IF Len(argv) > 2 THEN argv[3] ELSE DefaultAmount

\* Lines 63-75: read the arguments, print the banner, call mint_tokens.
Main ==
    /\ pc = "main"
    /\ to_address' = ArgAddress(sys_argv)
    /\ amount' = ArgAmount(sys_argv)
    /\ out' = out \o Banner(to_address', amount')
    /\ pc' = "send_balance"
    /\ UNCHANGED <<sys_argv, requests, inflight, response, fault>>

\* A post that does not wait for its answer.
AfterPostBalanceNoWait == "send_info"

\* Where the interpreter is once requests.post has been called: blocked in
\* the call until it returns or raises.
AfterPostBalance == "wait_balance"
AfterPostInfo == "wait_info"

\* Lines 24-32: build the balance query, announce it, post it.
SendBalance ==
    /\ pc = "send_balance"
    /\ out' = Append(out, Line("Checking current balance for {}...", to_address))
    /\ requests' = Append(requests, Post(Url, BalanceQuery(to_address, amount)))
    /\ inflight' = inflight \cup {Len(requests')}
    /\ pc' = AfterPostBalance
    /\ UNCHANGED <<sys_argv, to_address, amount, response, fault>>

\* requests.post returns: the endpoint answered the outstanding call.
ReceiveResponse ==
    /\ pc \in {"wait_balance", "wait_info"}
    /\ inflight # {}
    /\ \E r \in Responses : response' = r
    /\ inflight' = {}
    /\ pc' = IF pc = "wait_balance" THEN "handle_balance" ELSE "handle_info"
    /\ UNCHANGED <<sys_argv, to_address, amount, requests, out, fault>>

\* A transport fault that is caught and logged, the run going on.
TransportFaultCaught ==
    /\ pc \in {"wait_balance", "wait_info"}
    /\ inflight # {}
    /\ inflight' = {}
    /\ fault' = "ConnectionError"
    /\ pc' = IF pc = "wait_balance" THEN "send_info" ELSE "advisory"
    /\ UNCHANGED <<sys_argv, to_address, amount, requests, response, out>>

\* requests.post raises (connection refused, timeout, DNS failure): nothing
\* catches it, the process ends with a traceback.
TransportFault ==
    /\ pc \in {"wait_balance", "wait_info"}
    /\ inflight # {}
    /\ inflight' = {}
    /\ fault' = "ConnectionError"
    /\ pc' = "crashed"
    /\ UNCHANGED <<sys_argv, to_address, amount, requests, response, out>>

\* A failed balance check that ends the run.
AfterBalanceFailedReturn == "done"
\* A failed balance check that is tried again.
AfterBalanceFailedRetry == "send_balance"

\* Where mint_tokens goes on after the balance answer was reported.
AfterBalanceOk == "send_info"
AfterBalanceFailed == "send_info"

\* Lines 34-39.  response.json() raises on a body that is not JSON, and
\* nothing catches it.
HandleBalance ==
    /\ pc = "handle_balance"
    /\ IF response.status_code = HTTP_OK
       THEN LET result == ParseJSON(response.text)
            IN  IF result.ok
                THEN /\ out' = out \o BalanceOkLines(result.val)
                     /\ pc' = AfterBalanceOk
                     /\ fault' = fault
                ELSE /\ fault' = "JSONDecodeError"
                     /\ pc' = "crashed"
                     /\ out' = out
       ELSE /\ out' = out \o BalanceFailedLines(response)
            /\ pc' = AfterBalanceFailed
            /\ fault' = fault
    /\ UNCHANGED <<sys_argv, to_address, amount, requests, inflight, response>>

\* Lines 42-47: build the token-info query, announce it, post it.
SendInfo ==
    /\ pc = "send_info"
    /\ out' = Append(out, Line("\nChecking token info...", <<>>))
    /\ requests' = Append(requests, Post(Url, InfoQuery(to_address, amount)))
    /\ inflight' = inflight \cup {Len(requests')}
    /\ pc' = AfterPostInfo
    /\ UNCHANGED <<sys_argv, to_address, amount, response, fault>>

\* Lines 49-53.
HandleInfo ==
    /\ pc = "handle_info"
    /\ IF response.status_code = HTTP_OK
       THEN LET result == ParseJSON(response.text)
            IN  IF result.ok
                THEN /\ out' = out \o InfoOkLines(result.val)
                     /\ pc' = "advisory"
                     /\ fault' = fault
                ELSE /\ fault' = "JSONDecodeError"
                     /\ pc' = "crashed"
                     /\ out' = out
       ELSE /\ out' = out \o InfoFailedLines(response)
            /\ pc' = "advisory"
            /\ fault' = fault
    /\ UNCHANGED <<sys_argv, to_address, amount, requests, inflight, response>>

\* Lines 55-60, and the return from mint_tokens: the script ends.
PrintAdvisory ==
    /\ pc = "advisory"
    /\ out' = out \o Advisory
    /\ pc' = "done"
    /\ UNCHANGED <<sys_argv, to_address, amount, requests, inflight, response, fault>>

Next ==
    \/ Main
    \/ SendBalance
    \/ ReceiveResponse
    \/ TransportFault
    \/ HandleBalance
    \/ SendInfo
    \/ HandleInfo
    \/ PrintAdvisory

Spec == Init /\ [][Next]_vars

-----------------------------------------------------------------------------
(* Vocabulary of the properties.                                           *)

\* needle occurs in hay as a run of consecutive elements.
IsInfix(needle, hay) ==
    \E i \in 0..(Len(hay) - Len(needle)) :
        SubSeq(hay, i + 1, i + Len(needle)) = needle

\* Index of the last printed line whose literal text is lit; 0 if none.
LastLine(lit) ==
    IF \E i \in 1..Len(out) : out[i].lit = lit
    THEN CHOOSE i \in 1..Len(out) :
             /\ out[i].lit = lit
             /\ \A j \in (i + 1)..Len(out) : out[j].lit # lit
    ELSE 0

\* The lines printed after the announcement of the balance request and
\* before that of the token-info request: the report of the balance answer.
BalanceReport ==
    LET from == LastLine("Checking current balance for {}...")
        to == LastLine("\nChecking token info...")
    IN  IF from = 0 THEN <<>>
        ELSE SubSeq(out, from + 1, IF to = 0 THEN Len(out) ELSE to - 1)

\* The lines printed after the announcement of the token-info request and
\* before the advisory: the report of the token-info answer.
InfoReport ==
    LET from == LastLine("\nChecking token info...")
        to == LastLine(Advisory[1].lit)
    IN  IF from = 0 THEN <<>>
        ELSE SubSeq(out, from + 1, IF to = 0 THEN Len(out) ELSE to - 1)

AdvisoryPrinted == IsInfix(Advisory, out)

Ended == pc \in {"done", "crashed"}

\* The status codes as they read in decimal.
StatusText == (200 :> <<"2", "0", "0">>) @@ (404 :> <<"4", "0", "4">>) @@ (500 :> <<"5", "0", "0">>)

\* The query texts as the interface description gives them.
ExpectedBalanceQuery(addr) ==
    <<"{", " ", "b", "a", "l", "a", "n", "c", "e", "(", "o", "w", "n", "e", "r", ":", " ", "\"">> \o addr \o <<"\"", ")", " ", "}">>
ExpectedInfoQuery == <<"{", " ", "t", "o", "k", "e", "n", "I", "n", "f", "o", " ", "{", " ", "n", "a", "m", "e", " ", "s", "y", "m", "b", "o", "l", " ", "d", "e", "c", "i", "m", "a", "l", "s", " ", "t", "o", "t", "a", "l", "S", "u", "p", "p", "l", "y", " ", "}", " ", "}">>

IsBalanceRequest(r) == IsInfix(<<"b", "a", "l", "a", "n", "c", "e", "(", "o", "w", "n", "e", "r", ":">>, r.json.query)
IsInfoRequest(r) == r.json = [query |-> ExpectedInfoQuery]

-----------------------------------------------------------------------------
(* C1: when the balance request is answered with a status other than 200,  *)
(* the run prints that status code and the raw response text, does not     *)
(* end, and the step it takes next issues the token-info request.          *)
C1_NonOkBalanceIsReportedAndRunGoesOn ==
    [][/\ (pc = "handle_balance" /\ response.status_code # 200) =>
            /\ pc' = "send_info"
            /\ fault' = "none"
            /\ Len(out') = Len(out) + 2
            /\ out'[Len(out) + 1].arg = StatusText[response.status_code]
            /\ out'[Len(out) + 2].arg = response.text
            /\ SubSeq(out', 1, Len(out)) = out
       /\ pc = "send_info" =>
            /\ Len(requests') = 2
            /\ IsInfoRequest(requests'[2])
            /\ inflight' = {2}]_vars

\* The run of the non-200 example: 500 "server error" was reported and the
\* token-info request is out.
C1_Witness ==
    /\ pc = "wait_info"
    /\ response = [status_code |-> 500, text |-> <<"s", "e", "r", "v", "e", "r", " ", "e", "r", "r", "o", "r">>]
    /\ Len(BalanceReport) = 2
    /\ BalanceReport[1].arg = <<"5", "0", "0">>
    /\ BalanceReport[2].arg = <<"s", "e", "r", "v", "e", "r", " ", "e", "r", "r", "o", "r">>
    /\ Len(requests) = 2

-----------------------------------------------------------------------------
(* C2: on every invocation the advisory is printed, whatever the answers   *)
(* to the two requests.  Stated of the runs that have ended and in which   *)
(* every request issued was answered with an HTTP response.                *)
C2_AdvisoryOnEveryAnsweredRun ==
    (Ended /\ fault # "ConnectionError") => AdvisoryPrinted

-----------------------------------------------------------------------------
(* C3: a 200 answer whose body is not valid JSON is reported as a warning  *)
(* on standard output and the run goes on to its next step; the process    *)
(* does not end abnormally.                                                *)
C3_MalformedJsonIsReportedAndRunGoesOn ==
    [][(/\ pc \in {"handle_balance", "handle_info"}
        /\ response.status_code = 200
        /\ ~ParseJSON(response.text).ok) =>
            /\ pc' = (IF pc = "handle_balance" THEN "send_info" ELSE "advisory")
            /\ fault' = "none"
            /\ Len(out') > Len(out)]_vars

-----------------------------------------------------------------------------
(* C4: a transport fault on either POST is not caught: the process ends    *)
(* abnormally at that point and no later step of the run happens (no       *)
(* further request, no further output, no advisory).                       *)
C4_TransportFaultEndsTheRun ==
    /\ [](fault = "ConnectionError" => (pc = "crashed" /\ ~AdvisoryPrinted))
    /\ [][/\ (fault' = "ConnectionError" /\ fault = "none") =>
                /\ pc \in {"wait_balance", "wait_info"}
                /\ pc' = "crashed"
                /\ requests' = requests
                /\ Len(requests) = (IF pc = "wait_balance" THEN 1 ELSE 2)
                /\ out' = out
          /\ fault = "ConnectionError" => UNCHANGED vars]_vars

\* The token-info request met a transport fault after the balance answer
\* had been reported.
C4_Witness ==
    /\ pc = "crashed"
    /\ fault = "ConnectionError"
    /\ Len(requests) = 2
    /\ BalanceReport # <<>>
    /\ InfoReport = <<>>

-----------------------------------------------------------------------------
(* C5: at most two requests are issued in a run, at most one balance       *)
(* request and at most one token-info request: nothing is re-issued.       *)
C5_AtMostTwoRequestsNoRetry ==
    /\ Len(requests) <= 2
    /\ Cardinality({i \in 1..Len(requests) : IsBalanceRequest(requests[i])}) <= 1
    /\ Cardinality({i \in 1..Len(requests) : IsInfoRequest(requests[i])}) <= 1

\* A run that ended after both requests had failed, with two requests made.
C5_Witness ==
    /\ pc = "done"
    /\ Len(requests) = 2
    /\ Len(BalanceReport) = 2
    /\ response.status_code # 200

-----------------------------------------------------------------------------
(* C6, as stated: the requests are the same for every amount, and the      *)
(* amount given occurs in no request body.                                 *)
C6_AmountOccursInNoRequestBody ==
    \A i \in 1..Len(requests) :
        /\ \A m \in Amounts \cup {DefaultAmount} :
               requests[i] = Post(Url, IF i = 1 THEN BalanceQuery(to_address, m)
                                       ELSE InfoQuery(to_address, m))
        /\ amount # <<>> => ~IsInfix(amount, requests[i].json.query)

\* C6, amended: the requests (URL and body) are the same for every amount:
\* each request issued is the one the run would have issued with any other
\* amount.  (The characters of the amount can still occur in a body, when
\* the address or the fixed query text holds them.)
C6_RequestsDoNotDependOnAmount ==
    \A i \in 1..Len(requests) :
        \A m \in Amounts \cup {DefaultAmount} :
            requests[i] = Post(Url, IF i = 1 THEN BalanceQuery(to_address, m)
                                    ELSE InfoQuery(to_address, m))

\* A finished run with an amount given on the command line, whose characters
\* also occur in the balance request (as part of the address).
C6_Witness ==
    /\ pc = "done"
    /\ Len(sys_argv) = 3
    /\ amount # <<>>
    /\ Len(requests) = 2
    /\ IsInfix(amount, requests[1].json.query)

-----------------------------------------------------------------------------
(* C7: the token-info answer is handled as the balance answer is: on 200   *)
(* the parsed JSON is printed, on any other status both the status code    *)
(* and the raw response text are printed.                                  *)
C7_InfoAnswerHandledLikeBalanceAnswer ==
    pc = "advisory" =>
        IF response.status_code = 200
        THEN /\ Len(InfoReport) = 1
             /\ ParseJSON(InfoReport[1].arg).ok
             /\ ParseJSON(InfoReport[1].arg).val = ParseJSON(response.text).val
        ELSE /\ \E k \in 1..Len(InfoReport) :
                    InfoReport[k].arg = StatusText[response.status_code]
             /\ \E k \in 1..Len(InfoReport) :
                    /\ InfoReport[k].lit = "Response: {}"
                    /\ InfoReport[k].arg = response.text

-----------------------------------------------------------------------------
(* C8: for every destination address A, the empty one and those with       *)
(* quotes included, the body of the balance request is the mapping with    *)
(* the one key "query" whose value is { balance(owner: "A") }, A inserted  *)
(* as it is, unescaped.                                                    *)
C8_BalanceQueryIsAddressVerbatim ==
    Len(requests) >= 1 =>
        /\ DOMAIN requests[1].json = {"query"}
        /\ requests[1].json.query = ExpectedBalanceQuery(to_address)
        /\ to_address = (IF Len(sys_argv) > 1 THEN sys_argv[2] ELSE DefaultAddress)

\* The balance request of a run whose address holds a double quote.
C8_Witness ==
    /\ Len(requests) >= 1
    /\ Quote \in Range(to_address)
    /\ IsInfix(to_address, requests[1].json.query)

-----------------------------------------------------------------------------
-----------------------------------------------------------------------------
(* C10: the run is strictly sequential: at most one request is outstanding *)
(* at any time; the balance request is issued before the token-info        *)
(* request; the token-info request is issued only once the balance request*)
(* has returned a response and that response has been printed; and while a *)
(* request is outstanding nothing happens but its answer or its fault: a   *)
(* request that meets neither blocks the run for good.                     *)
C10_OneRequestAtATimeInOrder ==
    /\ [](/\ Cardinality(inflight) <= 1
          /\ Len(requests) >= 1 => IsBalanceRequest(requests[1])
          /\ Len(requests) >= 2 => IsInfoRequest(requests[2])
          /\ inflight # {} => (~Ended /\ inflight = {Len(requests)}))
    /\ [][/\ Len(requests') > Len(requests) =>
                /\ inflight = {}
                /\ Len(requests') = Len(requests) + 1
          /\ (Len(requests') = 2 /\ Len(requests) = 1) =>
                /\ response \in Responses
                /\ BalanceReport # <<>>
                /\ BalanceReport[1].lit \in {"Current balance: {}",
                                             "Could not check balance: {}"}
          /\ inflight # {} =>
                /\ inflight' = {}
                /\ requests' = requests
                /\ out' = out
                /\ \/ response' \in Responses /\ fault' = "none"
                   \/ fault' = "ConnectionError" /\ pc' = "crashed"]_vars

\* The token-info request is outstanding, the balance request is not.
C10_Witness ==
    /\ pc = "wait_info"
    /\ inflight = {2}
    /\ Len(requests) = 2
    /\ BalanceReport # <<>>

====
